---- MODULE Spec2Model ----
(***************************************************************************)
(* Model of McStas/Text2MCPL.C: the command-line converter that reads      *)
(* records "x y z px py pz ekin" from a text file with fscanf and hands    *)
(* every record that survives the two momentum tests to an MCPL output     *)
(* file.                                                                   *)
(*                                                                         *)
(* The text file is a sequence of characters, fscanf is a scanner over it. *)
(* A double is modelled by its exact real value, written                   *)
(*     (num / den) * sqrt(rad)        with rad square free,                *)
(* together with the special values of the format (infinities and NaN).    *)
(* Every operation delivers the exact result, then applies the range of    *)
(* the format: a magnitude above MaxFinite becomes an infinity, a non-zero *)
(* magnitude below 1/MinPositiveDen becomes zero.  The range is narrower   *)
(* than that of a double (the inputs "100" and "0.01" play the part of     *)
(* 1e200 and 1e-200); rounding of the significand and the sign of zero are *)
(* not modelled.                                                           *)
(***************************************************************************)
EXTENDS Integers, Sequences, FiniteSets, TLC

\* ------------------------------------------------------------------ bounds
MaxLines == 2          \* number of text lines in the input file
MaxArgc == 4           \* largest argument count tried
MaxFinite == 1000      \* largest finite magnitude of the number format
MinPositiveDen == 1000 \* 1/MinPositiveDen is its smallest positive magnitude

\* ------------------------------------------------- constants of the program
pdg_num_neutron == 2112
weight == 1
ToleranceDen == 100000 \* 1.0e-5 is 1/ToleranceDen
EOF == -1
NFields == 7

\* ------------------------------------------------------------- arithmetic
\* the element of a one-element set; The({ e(a) : a \in {x} }) is e(x) with
\* the operand x evaluated once, before the operation
The(S) == CHOOSE x \in S : TRUE

Abs(n) == IF n < 0 THEN -n ELSE n

Sign(n) == IF n < 0 THEN -1 ELSE IF n > 0 THEN 1 ELSE 0

RECURSIVE Gcd(_, _)
Gcd(a, b) == IF b = 0 THEN a ELSE Gcd(b, a % b)

RECURSIVE Pow10(_)
Pow10(k) == IF k = 0 THEN 1 ELSE 10 * Pow10(k - 1)

\* the largest s at or below s0 with s*s dividing n (n > 0)
RECURSIVE SquarePartFrom(_, _)
SquarePartFrom(n, s0) ==
    IF s0 <= 1 THEN 1
    ELSE IF s0 * s0 <= n /\ n % (s0 * s0) = 0 THEN s0
    ELSE SquarePartFrom(n, s0 - 1)

\* the smallest s at or above s0 with s*s >= n
RECURSIVE RootAbove(_, _)
RootAbove(n, s0) == IF s0 * s0 >= n THEN s0 ELSE RootAbove(n, s0 + 1)

\* the largest s with s*s dividing n (n > 0)
SquarePart(n) == SquarePartFrom(n, RootAbove(n, 1))

\* -------------------------------------------------------- values of double
NaN == [cls |-> "nan", num |-> 0, den |-> 1, rad |-> 1]
Inf(sgn) == [cls |-> "inf", num |-> sgn, den |-> 1, rad |-> 1]
Zero == [cls |-> "fin", num |-> 0, den |-> 1, rad |-> 1]
Uninit == [cls |-> "uninit", num |-> 0, den |-> 1, rad |-> 1]
Rat(n, d) == [cls |-> "fin", num |-> n, den |-> d, rad |-> 1]
One == Rat(1, 1)

\* (n/d)*sqrt(r) in lowest terms, d > 0, r square free
Norm(n, d, r) ==
    IF n = 0 THEN Zero
    ELSE The({ [cls |-> "fin", num |-> n \div g, den |-> d \div g, rad |-> r]
               : g \in {Gcd(Abs(n), d)} })

\* |(n/d)*sqrt(r)| > MaxFinite; sqrt(r) lies between 1 and r
AboveMax(n, d, r) ==
    IF Abs(n) > MaxFinite * d THEN TRUE
    ELSE IF Abs(n) * r <= MaxFinite * d THEN FALSE
    ELSE n * n * r > MaxFinite * MaxFinite * d * d

\* |(n/d)*sqrt(r)| < 1/MinPositiveDen
BelowMin(n, d, r) ==
    IF Abs(n) * MinPositiveDen >= d THEN FALSE
    ELSE IF Abs(n) * r * MinPositiveDen < d THEN TRUE
    ELSE n * n * r * MinPositiveDen * MinPositiveDen < d * d

\* the finite value x delivered in the range of the format
Range(x) ==
    The({ IF v.num = 0 THEN Zero
          ELSE IF AboveMax(v.num, v.den, v.rad) THEN Inf(Sign(v.num))
          ELSE IF BelowMin(v.num, v.den, v.rad) THEN Zero
          ELSE v
          : v \in {x} })

\* the exact result (n/d)*sqrt(r) delivered in the range of the format
Fl(n, d, r) == Range(Norm(n, d, r))

IsNaN(a) == a.cls = "nan"
IsInf(a) == a.cls = "inf"
IsZero(a) == a.cls = "fin" /\ a.num = 0

Neg(a) == IF a.cls \in {"fin", "inf"} THEN [a EXCEPT !.num = -a.num] ELSE a

\* x * y
Mul(x, y) ==
    The({ IF IsNaN(a) \/ IsNaN(b) THEN NaN
          ELSE IF IsInf(a) \/ IsInf(b)
               THEN IF IsZero(a) \/ IsZero(b) THEN NaN
                    ELSE Inf(Sign(a.num) * Sign(b.num))
          ELSE The({ Fl(a.num * b.num * g, a.den * b.den,
                        (a.rad \div g) * (b.rad \div g))
                     : g \in {Gcd(a.rad, b.rad)} })
          : a \in {x}, b \in {y} })

\* x / y
Div(x, y) ==
    The({ IF IsNaN(a) \/ IsNaN(b) THEN NaN
          ELSE IF IsInf(b) THEN (IF IsInf(a) THEN NaN ELSE Zero)
          ELSE IF IsInf(a)
               THEN Inf(a.num * (IF b.num < 0 THEN -1 ELSE 1))
          ELSE IF IsZero(b)
               THEN (IF IsZero(a) THEN NaN ELSE Inf(Sign(a.num)))
          ELSE \* 1/((n/d)*sqrt(r)) = (d/(n*r))*sqrt(r)
               Mul(a, Norm(Sign(b.num) * b.den, Abs(b.num) * b.rad, b.rad))
          : a \in {x}, b \in {y} })

\* x + y; finite operands are rationals or share their radical
Add(x, y) ==
    The({ CASE IsNaN(a) \/ IsNaN(b) -> NaN
            [] ~IsNaN(a) /\ ~IsNaN(b) /\ IsInf(a) ->
                  IF IsInf(b) /\ b.num # a.num THEN NaN ELSE a
            [] a.cls = "fin" /\ IsInf(b) -> b
            [] a.cls = "fin" /\ b.cls = "fin" /\ IsZero(a) -> b
            [] a.cls = "fin" /\ b.cls = "fin" /\ ~IsZero(a) /\ IsZero(b) -> a
            [] a.cls = "fin" /\ b.cls = "fin" /\ ~IsZero(a) /\ ~IsZero(b)
                  /\ a.rad = b.rad ->
                  Fl(a.num * b.den + b.num * a.den, a.den * b.den, a.rad)
          : a \in {x}, b \in {y} })

\* x - y
Sub(x, y) == Add(x, Neg(y))

\* sqrt(x) of a rational, an infinity or NaN
Sqrt(x) ==
    The({ CASE IsNaN(a) -> NaN
            [] IsInf(a) -> IF a.num > 0 THEN a ELSE NaN
            [] a.cls = "fin" /\ a.num < 0 -> NaN
            [] a.cls = "fin" /\ a.num = 0 -> Zero
            [] a.cls = "fin" /\ a.num > 0 /\ a.rad = 1 ->
                  The({ Fl(s, a.den, (a.num * a.den) \div (s * s))
                        : s \in {SquarePart(a.num * a.den)} })
          : a \in {x} })

\* fabs(a)
Fabs(a) == IF a.cls \in {"fin", "inf"} THEN [a EXCEPT !.num = Abs(a.num)] ELSE a

\* x > y; false when an operand is NaN
Gt(x, y) ==
    The({ CASE IsNaN(a) \/ IsNaN(b) -> FALSE
            [] ~IsNaN(a) /\ ~IsNaN(b) /\ IsInf(a) ->
                  a.num > 0 /\ ~(IsInf(b) /\ b.num > 0)
            [] a.cls = "fin" /\ IsInf(b) -> b.num < 0
            [] a.cls = "fin" /\ b.cls = "fin" ->
                  IF Sign(a.num) # Sign(b.num) THEN Sign(a.num) > Sign(b.num)
                  ELSE IF a.rad = b.rad THEN a.num * b.den > b.num * a.den
                  ELSE IF a.num > 0
                  THEN a.num * a.num * a.rad * b.den * b.den
                          > b.num * b.num * b.rad * a.den * a.den
                  ELSE a.num * a.num * a.rad * b.den * b.den
                          < b.num * b.num * b.rad * a.den * a.den
          : a \in {x}, b \in {y} })

\* a == b; false when an operand is NaN
Eq(a, b) == ~IsNaN(a) /\ ~IsNaN(b) /\ a = b

\* a <= b; false when an operand is NaN
Le(a, b) == ~IsNaN(a) /\ ~IsNaN(b) /\ ~Gt(a, b)

\* ------------------------------------------------------------------ fscanf
Digits == {"0", "1", "2", "3", "4", "5", "6", "7", "8", "9"}

DigitVal == ("0" :> 0) @@ ("1" :> 1) @@ ("2" :> 2) @@ ("3" :> 3) @@ ("4" :> 4)
            @@ ("5" :> 5) @@ ("6" :> 6) @@ ("7" :> 7) @@ ("8" :> 8) @@ ("9" :> 9)

IsSpace(c) == c \in {" ", "\n"}

RECURSIVE SkipSpace(_, _)
SkipSpace(s, i) ==
    IF i <= Len(s) /\ IsSpace(s[i]) THEN SkipSpace(s, i + 1) ELSE i

RECURSIVE ScanDigits(_, _, _, _)
ScanDigits(s, i, n, k) ==
    IF i <= Len(s) /\ s[i] \in Digits
    THEN ScanDigits(s, i + 1, n * 10 + DigitVal[s[i]], k + 1)
    ELSE [pos |-> i, num |-> n, cnt |-> k]

HasWord(s, i, w) ==
    i + Len(w) - 1 <= Len(s) /\ SubSeq(s, i, i + Len(w) - 1) = w

\* one %lf conversion at position i: white space, then the longest text that
\* reads as a number: sign, then "inf", "nan", or digits with a fraction
ScanDouble(s, i0) ==
    LET i == SkipSpace(s, i0)
        neg == i <= Len(s) /\ s[i] = "-"
        j == IF i <= Len(s) /\ s[i] \in {"-", "+"} THEN i + 1 ELSE i
        sg == IF neg THEN -1 ELSE 1
        ip == ScanDigits(s, j, 0, 0)
        fp == IF ip.pos <= Len(s) /\ s[ip.pos] = "."
              THEN ScanDigits(s, ip.pos + 1, 0, 0)
              ELSE [pos |-> ip.pos, num |-> 0, cnt |-> 0]
    IN  IF HasWord(s, j, <<"i", "n", "f">>)
        THEN [ok |-> TRUE, val |-> Inf(sg), pos |-> j + 3, eof |-> FALSE]
        ELSE IF HasWord(s, j, <<"n", "a", "n">>)
        THEN [ok |-> TRUE, val |-> NaN, pos |-> j + 3, eof |-> FALSE]
        ELSE IF ip.cnt + fp.cnt = 0
        THEN [ok |-> FALSE, val |-> Uninit, pos |-> j, eof |-> i > Len(s)]
        ELSE [ok |-> TRUE,
              val |-> Fl(sg * (ip.num * Pow10(fp.cnt) + fp.num), Pow10(fp.cnt), 1),
              pos |-> fp.pos, eof |-> FALSE]

\* fscanf(f, "%lf %lf %lf %lf %lf %lf %lf", ...) reading s from position i:
\* the values converted, their number (EOF when the input ends before the
\* first conversion) and the position reached
RECURSIVE FscanfFrom(_, _, _)
FscanfFrom(s, i, vals) ==
    IF Len(vals) = NFields THEN [n |-> NFields, vals |-> vals, pos |-> i]
    ELSE The({ IF c.ok THEN FscanfFrom(s, c.pos, Append(vals, c.val))
               ELSE [n |-> IF vals = <<>> /\ c.eof THEN EOF ELSE Len(vals),
                     vals |-> vals, pos |-> c.pos]
               : c \in {ScanDouble(s, i)} })   \* c is evaluated once

Fscanf(s, i) == FscanfFrom(s, i, <<>>)

\* ------------------------------------------------------------- input files
RECURSIVE TextOf(_)
TextOf(words) ==
    IF words = <<>> THEN <<"\n">>
    ELSE words[1] \o (IF Len(words) > 1 THEN <<" ">> ELSE <<>>)
         \o TextOf(Tail(words))

Lines ==
    { TextOf(<< <<"0">>, <<"0">>, <<"0">>, <<"1">>, <<"0">>, <<"0">>, <<"5", ".", "0">> >>),
      TextOf(<< <<"1">>, <<"1">>, <<"1">>, <<"0">>, <<"0">>, <<"0">>, <<"3", ".", "0">> >>),
      TextOf(<< <<"1">>, <<"2">>, <<"3">>, <<"3">>, <<"-", "4">>, <<"0">>, <<"2">> >>),
      TextOf(<< <<"2">>, <<"0">>, <<"1">>, <<"1">>, <<"1">>, <<"0">>, <<"7">> >>),
      TextOf(<< <<"0">>, <<"0">>, <<"2">>, <<"1", "0", "0">>, <<"0">>, <<"0">>, <<"1">> >>),
      TextOf(<< <<"0">>, <<"3">>, <<"0">>, <<"0", ".", "0", "1">>, <<"0">>, <<"0">>, <<"1">> >>),
      TextOf(<< <<"3">>, <<"0">>, <<"0">>, <<"i", "n", "f">>, <<"0">>, <<"0">>, <<"1">> >>),
      TextOf(<< <<"0">>, <<"1">>, <<"0">>, <<"0">>, <<"n", "a", "n">>, <<"0">>, <<"1">> >>),
      TextOf(<< <<"4">>, <<"5">>, <<"6">>, <<"0">>, <<"0">>, <<"2">>, <<"9", "x">> >>),
      TextOf(<< <<"1">>, <<"2">>, <<"3">> >>),
      TextOf(<< <<"a", "b", "c">> >>) }

RECURSIVE Concat(_)
Concat(ls) == IF ls = <<>> THEN <<>> ELSE ls[1] \o Concat(Tail(ls))

Files == { Concat(ls) : ls \in UNION { [1..k -> Lines] : k \in 0..MaxLines } }

\* the command line: the program name, then the arguments
ArgvOf(n) ==
    [i \in 1..n |-> IF i = 1 THEN "Text2MCPL"
                    ELSE IF i = 2 THEN "in.txt"
                    ELSE IF i = 3 THEN "out.mcpl"
                    ELSE "extra"]

\* ------------------------------------------------------------------- state
VARIABLES
    argc, argv,             \* the command line
    pc,                     \* position in main
    ret,                    \* value returned by main, -1 while it runs
    input_file, output_file,
    f,                      \* the FILE*: "none", "NULL", "open", "closed"
    content, fpos,          \* text of the opened file and read position
    f2,                     \* the MCPL output file as seen through its API
    calls,                  \* stdio and MCPL calls made so far, in order
    ind,
    hit_x, hit_y, hit_z, px, py, pz, kinetic_energy,
    length, normalized_dx, normalized_dy, normalized_dz, dirsq,
    particle                \* the particle structure handed to the library

vars == <<argc, argv, pc, ret, input_file, output_file, f, content, fpos, f2,
          calls, ind, hit_x, hit_y, hit_z, px, py, pz, kinetic_energy, length,
          normalized_dx, normalized_dy, normalized_dz, dirsq, particle>>

args == <<argc, argv, input_file, output_file>>
source == <<f, content, fpos>>
fields == <<hit_x, hit_y, hit_z, px, py, pz, kinetic_energy>>
locals == <<length, normalized_dx, normalized_dy, normalized_dz, dirsq>>

NoOutfile ==
    [path |-> "none", srcname |-> "none", comments |-> <<>>,
     particles |-> <<>>, state |-> "none"]

NoParticle ==
    [position |-> <<Uninit, Uninit, Uninit>>, pdgcode |-> 0, ekin |-> Uninit,
     direction |-> <<Uninit, Uninit, Uninit>>, weight |-> 0]

\* argv[i] with the index of the C program
Argv(i) == argv[i + 1]

Init ==
    /\ argc \in 1..MaxArgc
    /\ argv = ArgvOf(argc)
    /\ pc = "main"
    /\ ret = -1
    /\ input_file = "none"
    /\ output_file = "none"
    /\ f = "none"
    /\ content = <<>>
    /\ fpos = 1
    /\ f2 = NoOutfile
    /\ calls = <<>>
    /\ ind = 0
    /\ hit_x = Uninit /\ hit_y = Uninit /\ hit_z = Uninit
    /\ px = Uninit /\ py = Uninit /\ pz = Uninit
    /\ kinetic_energy = Uninit
    /\ length = Uninit
    /\ normalized_dx = Uninit /\ normalized_dy = Uninit /\ normalized_dz = Uninit
    /\ dirsq = Uninit
    /\ particle = NoParticle

\* ---------------------------------------------------------------- main
\* argc != 3: usage message, return 1
Usage ==
    /\ pc = "main"
    /\ argc # 3
    /\ ret' = 1
    /\ pc' = "exited"
    /\ UNCHANGED <<args, source, f2, calls, ind, fields, locals, particle>>

\* variant: the argument count is tested with argc < 3
ExtractArgs_atLeast3 ==
    /\ pc = "main"
    /\ ~(argc < 3)
    /\ input_file' = Argv(1)
    /\ output_file' = Argv(2)
    /\ pc' = "fopen"
    /\ UNCHANGED <<argc, argv, ret, source, f2, calls, ind, fields, locals, particle>>

ExtractArgs ==
    /\ pc = "main"
    /\ ~(argc # 3)
    /\ input_file' = Argv(1)
    /\ output_file' = Argv(2)
    /\ pc' = "fopen"
    /\ UNCHANGED <<argc, argv, ret, source, f2, calls, ind, fields, locals, particle>>

\* variant: the NULL test is missing and main goes on
FopenFails_continues ==
    /\ pc = "fopen"
    /\ f' = "NULL"
    /\ calls' = Append(calls, "fopen_null")
    /\ pc' = "create"
    /\ UNCHANGED <<args, ret, content, fpos, f2, ind, fields, locals, particle>>

\* fopen returns NULL: error message, return 1
FopenFails ==
    /\ pc = "fopen"
    /\ f' = "NULL"
    /\ ret' = 1
    /\ pc' = "exited"
    /\ calls' = Append(calls, "fopen_null")
    /\ UNCHANGED <<args, content, fpos, f2, ind, fields, locals, particle>>

\* fopen succeeds on a file holding some text
Fopen ==
    /\ pc = "fopen"
    /\ \E text \in Files : content' = text
    /\ fpos' = 1
    /\ f' = "open"
    /\ calls' = Append(calls, "fopen")
    /\ pc' = "create"
    /\ UNCHANGED <<args, ret, f2, ind, fields, locals, particle>>

CreateOutfile ==
    /\ pc = "create"
    /\ f2' = [NoOutfile EXCEPT !.path = output_file, !.state = "open"]
    /\ calls' = Append(calls, "mcpl_create_outfile")
    /\ pc' = "srcname"
    /\ UNCHANGED <<args, ret, source, ind, fields, locals, particle>>

\* variant: the comment is not added
HdrSetSrcname_noComment ==
    /\ pc = "srcname"
    /\ f2' = [f2 EXCEPT !.srcname = output_file]
    /\ calls' = Append(calls, "mcpl_hdr_set_srcname")
    /\ pc' = "scan"
    /\ UNCHANGED <<args, ret, source, ind, fields, locals, particle>>

HdrSetSrcname ==
    /\ pc = "srcname"
    /\ f2' = [f2 EXCEPT !.srcname = output_file]
    /\ calls' = Append(calls, "mcpl_hdr_set_srcname")
    /\ pc' = "comment"
    /\ UNCHANGED <<args, ret, source, ind, fields, locals, particle>>

HdrAddComment ==
    /\ pc = "comment"
    /\ f2' = [f2 EXCEPT !.comments =
                 Append(@, "Extracting Neutrons from the txt file")]
    /\ calls' = Append(calls, "mcpl_hdr_add_comment")
    /\ ind' = 0
    /\ pc' = "scan"
    /\ UNCHANGED <<args, ret, source, fields, locals, particle>>

\* the value a variable holds after an fscanf that converted the values r.vals
Stored(r, k, old) == IF k <= Len(r.vals) THEN r.vals[k] ELSE old

StoreFields(r) ==
    /\ hit_x' = Stored(r, 1, hit_x)
    /\ hit_y' = Stored(r, 2, hit_y)
    /\ hit_z' = Stored(r, 3, hit_z)
    /\ px' = Stored(r, 4, px)
    /\ py' = Stored(r, 5, py)
    /\ pz' = Stored(r, 6, pz)
    /\ kinetic_energy' = Stored(r, 7, kinetic_energy)

\* the loop condition holds: fscanf(...) == 7
ScanRecord ==
    /\ pc = "scan"
    /\ \E r \in {Fscanf(content, fpos)} :
           /\ r.n = 7
           /\ StoreFields(r)
           /\ fpos' = r.pos
    /\ calls' = Append(calls, "fscanf")
    /\ pc' = "body"
    /\ UNCHANGED <<args, ret, f, content, f2, ind, locals, particle>>

\* variant: after a failed conversion the loop steps over one character and
\* tries again, and ends only at the end of the text
ScanEnds_retries ==
    /\ pc = "scan"
    /\ \E r \in {Fscanf(content, fpos)} :
           /\ ~(r.n = 7)
           /\ StoreFields(r)
           /\ IF r.pos <= Len(content)
              THEN fpos' = r.pos + 1 /\ pc' = "scan"
              ELSE fpos' = r.pos /\ pc' = "close"
    /\ calls' = Append(calls, "fscanf")
    /\ UNCHANGED <<args, ret, f, content, f2, ind, locals, particle>>

\* variant: the loop ends only on EOF; a text that is no number is never
\* consumed and the loop condition is evaluated again and again
ScanEnds_spins ==
    /\ pc = "scan"
    /\ \E r \in {Fscanf(content, fpos)} :
           /\ ~(r.n = 7)
           /\ IF r.n = EOF
              THEN StoreFields(r) /\ fpos' = r.pos /\ pc' = "close"
                   /\ calls' = Append(calls, "fscanf")
              ELSE UNCHANGED <<fields, fpos, pc, calls>>
    /\ UNCHANGED <<args, ret, f, content, f2, ind, locals, particle>>

\* the loop condition fails: fewer than 7 conversions, or EOF
ScanEnds ==
    /\ pc = "scan"
    /\ \E r \in {Fscanf(content, fpos)} :
           /\ ~(r.n = 7)
           /\ StoreFields(r)
           /\ fpos' = r.pos
    /\ calls' = Append(calls, "fscanf")
    /\ pc' = "close"
    /\ UNCHANGED <<args, ret, f, content, f2, ind, locals, particle>>

\* sqrt(a*a + b*b + c*c)
LengthOf(a, b, c) == Sqrt(Add(Add(Mul(a, a), Mul(b, b)), Mul(c, c)))

\* dx*dx + dy*dy + dz*dz
DirsqOf(dx, dy, dz) == Add(Add(Mul(dx, dx), Mul(dy, dy)), Mul(dz, dz))

Tolerance == Rat(1, ToleranceDen)

\* double length = sqrt(px * px + py * py + pz * pz);
ComputeLength ==
    /\ pc = "body"
    /\ length' = LengthOf(px, py, pz)
    /\ pc' = "iflength"
    /\ UNCHANGED <<args, ret, source, f2, calls, ind, fields, normalized_dx,
                   normalized_dy, normalized_dz, dirsq, particle>>

LengthIsZero == Eq(length, Zero)

\* variant: break in place of continue
SkipZeroLength_breaks ==
    /\ pc = "iflength"
    /\ Eq(length, Zero)
    /\ ind' = ind + 1
    /\ pc' = "close"
    /\ UNCHANGED <<args, ret, source, f2, calls, fields, locals, particle>>

\* if (length == 0) { ind++; continue; }
SkipZeroLength ==
    /\ pc = "iflength"
    /\ LengthIsZero
    /\ ind' = ind + 1
    /\ pc' = "scan"
    /\ UNCHANGED <<args, ret, source, f2, calls, fields, locals, particle>>

\* the normalized momentum and its squared magnitude
Normalize ==
    /\ pc = "iflength"
    /\ ~LengthIsZero
    /\ normalized_dx' = Div(px, length)
    /\ normalized_dy' = Div(py, length)
    /\ normalized_dz' = Div(pz, length)
    /\ dirsq' = DirsqOf(normalized_dx', normalized_dy', normalized_dz')
    /\ pc' = "ifdirsq"
    /\ UNCHANGED <<args, ret, source, f2, calls, ind, fields, length, particle>>

NotNormalized == Gt(Fabs(Sub(dirsq, One)), Tolerance)

\* if (fabs(dirsq - 1.0) > 1.0e-5) { ind++; continue; }
SkipNotNormalized ==
    /\ pc = "ifdirsq"
    /\ NotNormalized
    /\ ind' = ind + 1
    /\ pc' = "scan"
    /\ UNCHANGED <<args, ret, source, f2, calls, fields, locals, particle>>

\* variant: the direction is the momentum as read
SetParticle_momentum ==
    [particle EXCEPT
        !.position = <<hit_x, hit_y, hit_z>>,
        !.pdgcode = pdg_num_neutron,
        !.ekin = kinetic_energy,
        !.direction = <<px, py, pz>>,
        !.weight = weight]

\* the assignments to *particle
SetParticle ==
    [particle EXCEPT
        !.position = <<hit_x, hit_y, hit_z>>,
        !.pdgcode = pdg_num_neutron,
        !.ekin = kinetic_energy,
        !.direction = <<normalized_dx, normalized_dy, normalized_dz>>,
        !.weight = weight]

\* fill *particle, mcpl_add_particle(f2, particle), ind++
AddParticle ==
    /\ pc = "ifdirsq"
    /\ ~NotNormalized
    /\ particle' = SetParticle
    /\ f2' = [f2 EXCEPT !.particles = Append(@, particle')]
    /\ calls' = Append(calls, "mcpl_add_particle")
    /\ ind' = ind + 1
    /\ pc' = "scan"
    /\ UNCHANGED <<args, ret, source, fields, locals>>

CloseAndGzip ==
    /\ pc = "close"
    /\ f2' = [f2 EXCEPT !.state = "closed"]
    /\ calls' = Append(calls, "mcpl_closeandgzip_outfile")
    /\ pc' = "fclose"
    /\ UNCHANGED <<args, ret, source, ind, fields, locals, particle>>

\* variant: the input file is not closed
Fclose_missing ==
    /\ pc = "fclose"
    /\ pc' = "return"
    /\ UNCHANGED <<args, ret, source, f2, calls, ind, fields, locals, particle>>

Fclose ==
    /\ pc = "fclose"
    /\ f' = "closed"
    /\ calls' = Append(calls, "fclose")
    /\ pc' = "return"
    /\ UNCHANGED <<args, ret, content, fpos, f2, ind, fields, locals, particle>>

Return0 ==
    /\ pc = "return"
    /\ ret' = 0
    /\ pc' = "exited"
    /\ UNCHANGED <<args, source, f2, calls, ind, fields, locals, particle>>

Next ==
    \/ Usage
    \/ ExtractArgs
    \/ FopenFails
    \/ Fopen
    \/ CreateOutfile
    \/ HdrSetSrcname
    \/ HdrAddComment
    \/ ScanRecord
    \/ ScanEnds
    \/ ComputeLength
    \/ SkipZeroLength
    \/ Normalize
    \/ SkipNotNormalized
    \/ AddParticle
    \/ CloseAndGzip
    \/ Fclose
    \/ Return0

Spec == Init /\ [][Next]_vars

\* main is a sequential program: it keeps running until it returns
FairSpec == Spec /\ WF_vars(Next)

TypeOK ==
    /\ pc \in {"main", "fopen", "create", "srcname", "comment", "scan", "body", "iflength", "ifdirsq",
               "close", "fclose", "return", "exited"}
    /\ ret \in {-1, 0, 1}
    /\ f \in {"none", "NULL", "open", "closed"}

\* ------------------------------------------------------------ properties
RECURSIVE Count(_, _)
Count(seq, x) ==
    IF seq = <<>> THEN 0
    ELSE (IF seq[1] = x THEN 1 ELSE 0) + Count(Tail(seq), x)

IsPrefix(a, b) == Len(a) <= Len(b) /\ SubSeq(b, 1, Len(a)) = a

\* the records the file holds from position i on: the groups of 7 numbers
\* fscanf delivers up to the first group it cannot complete
RECURSIVE Records(_, _)
Records(s, i) ==
    LET r == Fscanf(s, i)
    IN  IF r.n = NFields THEN <<r.vals>> \o Records(s, r.pos) ELSE <<>>

InputRecords == Records(content, 1)

\* the two tests of the loop body on a record: it is skipped
ZeroMomentum(r) == Eq(LengthOf(r[4], r[5], r[6]), Zero)

NonUnitDirection(r) ==
    LET l == LengthOf(r[4], r[5], r[6])
    IN  Gt(Fabs(Sub(DirsqOf(Div(r[4], l), Div(r[5], l), Div(r[6], l)), One)),
           Tolerance)

Skipped(r) == ZeroMomentum(r) \/ NonUnitDirection(r)
Passing(r) == ~Skipped(r)

Opened == Count(calls, "fopen") = 1
Finished == pc = "exited"

\* C1: a record read by fscanf is appended to the output file if and only if
\* its momentum length is greater than 0 and the squared magnitude of its
\* normalized momentum is within 1.0e-5 of 1.0
C1_AppendedIffUnit ==
    [][(pc \in {"iflength", "ifdirsq"} /\ pc' = "scan") =>
        ((f2'.particles # f2.particles) <=>
            (Gt(length, Zero) /\ Le(Fabs(Sub(dirsq, One)), Tolerance)))]_vars

\* C2: the particles in the output file are, in input order and once each,
\* the records of the input that are not skipped; at the end their number is
\* the number of records minus the number of skipped records
C2_PassingInOrder ==
    LET passing == SelectSeq(InputRecords, Passing)
        nskipped == Cardinality({k \in 1..Len(InputRecords) :
                                    Skipped(InputRecords[k])})
    IN  /\ Len(f2.particles) <= Len(passing)
        /\ \A i \in 1..Len(f2.particles) :
              /\ f2.particles[i].position =
                    <<passing[i][1], passing[i][2], passing[i][3]>>
              /\ f2.particles[i].ekin = passing[i][7]
        /\ (Finished /\ Opened) =>
              /\ Len(f2.particles) = Len(passing)
              /\ Len(f2.particles) = Len(InputRecords) - nskipped
              /\ ind = Len(InputRecords)

\* a run that skipped a record and appended a later one
C2_Witness ==
    /\ Finished
    /\ Len(InputRecords) >= 2
    /\ Skipped(InputRecords[1])
    /\ Len(f2.particles) >= 1

\* C3: the first fscanf that does not convert 7 fields is the last one: no
\* later text is read, validated or appended, what was appended stays, and
\* the run closes the output file and returns 0
C3_StopsAtFirstFailure ==
    /\ [](/\ Count(calls, "fscanf") <= Len(InputRecords) + 1
          /\ ind <= Len(InputRecords)
          /\ Len(f2.particles) <= Len(InputRecords)
          /\ (Finished /\ Opened) =>
                /\ Count(calls, "fscanf") = Len(InputRecords) + 1
                /\ f2.state = "closed"
                /\ ret = 0)
    /\ [][IsPrefix(f2.particles, f2'.particles)]_vars
    /\ [][Count(calls, "fscanf") = Len(InputRecords) + 1 =>
            /\ f2'.particles = f2.particles
            /\ fields' = fields
            /\ fpos' = fpos]_vars

\* a finished run that appended a record and left a complete record unread
\* behind the text that stopped it
C3_Witness ==
    /\ Finished
    /\ ret = 0
    /\ Len(f2.particles) = 1
    /\ \E i \in fpos..Len(content) : Fscanf(content, i).n = NFields

\* C4: the input file and the output file are each opened once and released
\* once, after the loop, whatever was appended or skipped
C4_AcquireReleaseOnce ==
    LET closeAt == CHOOSE i \in 1..Len(calls) :
                       calls[i] = "mcpl_closeandgzip_outfile"
    IN  /\ Count(calls, "fopen") <= 1
        /\ Count(calls, "mcpl_create_outfile") <= 1
        /\ Count(calls, "mcpl_closeandgzip_outfile") <= 1
        /\ Count(calls, "fclose") <= 1
        /\ Count(calls, "mcpl_closeandgzip_outfile") = 1 =>
              /\ Count(calls, "fscanf") = Len(InputRecords) + 1
              /\ \A j \in closeAt + 1..Len(calls) :
                    calls[j] \notin {"fscanf", "mcpl_add_particle"}
        /\ Count(calls, "fclose") = 1 =>
              Count(calls, "fscanf") = Len(InputRecords) + 1
        /\ (Finished /\ argc = 3 /\ f # "NULL") =>
              /\ Count(calls, "fopen") = 1
              /\ Count(calls, "mcpl_create_outfile") = 1
              /\ Count(calls, "mcpl_closeandgzip_outfile") = 1
              /\ Count(calls, "fclose") = 1
              /\ f = "closed"
              /\ f2.state = "closed"

\* a finished run with appended and skipped records and both handles released
C4_Witness ==
    /\ Finished
    /\ f = "closed"
    /\ f2.state = "closed"
    /\ Len(f2.particles) >= 1
    /\ ind > Len(f2.particles)

\* C5: when the input file cannot be opened the program returns 1 and has
\* made no call on the output file
C5_OpenFailureNoSink ==
    f = "NULL" =>
        /\ Finished
        /\ ret = 1
        /\ f2 = NoOutfile
        /\ calls = <<"fopen_null">>

C5_Witness == Finished /\ f = "NULL" /\ argc = 3

\* C6: with an argument count other than 3 the program returns 1 without
\* opening the input or touching the output; with 3 it never leaves main
\* through the usage exit
C6_UsageExit ==
    /\ [](argc # 3 =>
            /\ pc \in {"main", "exited"}
            /\ f = "none"
            /\ f2 = NoOutfile
            /\ calls = <<>>
            /\ Finished => ret = 1)
    /\ [][argc = 3 /\ pc = "main" => pc' = "fopen"]_vars

C6_Witness == Finished /\ argc > 3 /\ ret = 1

\* C7: every particle in the output file carries the position and kinetic
\* energy of one input record, pdgcode 2112, weight 1, and as direction the
\* momentum of that same record scaled by 1/length
C7_ParticleFields ==
    \A i \in 1..Len(f2.particles) :
        \E k \in 1..Len(InputRecords) :
            LET r == InputRecords[k]
                p == f2.particles[i]
                scale == Div(One, LengthOf(r[4], r[5], r[6]))
            IN  /\ p.position = <<r[1], r[2], r[3]>>
                /\ p.ekin = r[7]
                /\ p.pdgcode = 2112
                /\ p.weight = 1
                /\ p.direction =
                      <<Mul(r[4], scale), Mul(r[5], scale), Mul(r[6], scale)>>

\* two particles with different directions, an irrational length among them
C7_Witness ==
    /\ Len(f2.particles) = 2
    /\ f2.particles[1].direction # f2.particles[2].direction
    /\ f2.particles[2].direction[1].rad # 1

\* C8: the source name of the output file is the name of the input text file
\* (the first argument), and one comment is attached
C8_LabelIsInputFile ==
    /\ f2.srcname # "none" => f2.srcname = Argv(1)
    /\ (Finished /\ Opened) => Len(f2.comments) = 1

\* C9: with 3 arguments and an input file that opens, the program reaches
\* its end and returns 0; on an empty file the output file is created and
\* closed with no particle
C9_Terminates ==
    /\ [](Opened => <>(Finished /\ ret = 0))
    /\ []((Finished /\ Opened /\ content = <<>>) =>
            /\ Count(calls, "mcpl_create_outfile") = 1
            /\ f2.state = "closed"
            /\ f2.particles = <<>>)

C9_Witness ==
    /\ Finished
    /\ Opened
    /\ content = <<>>
    /\ ret = 0
    /\ f2.state = "closed"

\* C10: the calls on the output file come in the order create, set source
\* name, add comment, any number of add particle, close and gzip; the input
\* file is closed after that
C10_SinkCallOrder ==
    LET SinkOps == {"mcpl_create_outfile", "mcpl_hdr_set_srcname",
                    "mcpl_hdr_add_comment", "mcpl_add_particle",
                    "mcpl_closeandgzip_outfile", "fclose"}
        InSink(c) == c \in SinkOps
        m == SelectSeq(calls, InSink)
    IN  /\ Len(m) >= 1 => m[1] = "mcpl_create_outfile"
        /\ Len(m) >= 2 => m[2] = "mcpl_hdr_set_srcname"
        /\ Len(m) >= 3 => m[3] = "mcpl_hdr_add_comment"
        /\ \A i \in 4..Len(m) :
              /\ m[i] \in {"mcpl_add_particle", "mcpl_closeandgzip_outfile",
                           "fclose"}
              /\ m[i] = "mcpl_add_particle" => m[i - 1] # "fclose"
              /\ m[i - 1] = "mcpl_closeandgzip_outfile" => m[i] = "fclose"
              /\ m[i] = "fclose" => m[i - 1] = "mcpl_closeandgzip_outfile"
              /\ m[i] = "fclose" => i = Len(m)

C10_Witness ==
    /\ Finished
    /\ Count(calls, "mcpl_add_particle") = 2
    /\ calls[Len(calls)] = "fclose"

====
